---------------------------- MODULE Spec2Model ----------------------------
(***************************************************************************)
(* A model of the geometric node model of open-parse (src/src/schemas.py): *)
(* Bbox, TextSpan, LineElement, TextElement, TableElement and Node.        *)
(*                                                                         *)
(* Python strings are sequences of one-character strings, so that the      *)
(* regular-expression substitutions of _clean_markdown_formatting are      *)
(* computed character by character.  Coordinates are integers.  A call     *)
(* that raises is the record [raised |-> <exception>, value |-> NoValue].  *)
(***************************************************************************)
EXTENDS Integers, Sequences, FiniteSets, TLC

VARIABLES
    elements,   \* Node.elements of the node under study
    spans,      \* LineElement.spans of the line under study
    raw,        \* the string handed to _clean_markdown_formatting
    args,       \* the arguments drawn for a geometric call
    call        \* the last call made: its name, arguments and outcome

vars == <<elements, spans, raw, args, call>>

(***************************************************************************)
(* Bounds of the model.                                                    *)
(***************************************************************************)
MaxLen == 5        \* longest raw string given to the cleanup pass
MaxSpans == 3      \* most spans of a line
MaxElems == 3      \* most elements of a node
MaxPage == 2       \* pages are 1..MaxPage
MaxCoord == 2      \* raw coordinates are 0..MaxCoord
MaxLineCoord == 1  \* coordinates of a line's bbox are 0..MaxLineCoord
MaxMargin == 1     \* error margins are -MaxMargin..MaxMargin

NoValue == "NoValue"
NoCall == [op |-> "none"]

Returned(v) == [raised |-> "", value |-> v]
Raised(e) == [raised |-> e, value |-> NoValue]

Min(a, b) == IF a <= b THEN a ELSE b
Max(a, b) == IF a >= b THEN a ELSE b
Abs(a) == IF a >= 0 THEN a ELSE 0 - a

RECURSIVE SeqMin(_)
SeqMin(s) == IF Len(s) = 1 THEN s[1] ELSE Min(s[1], SeqMin(Tail(s)))

RECURSIVE SeqMax(_)
SeqMax(s) == IF Len(s) = 1 THEN s[1] ELSE Max(s[1], SeqMax(Tail(s)))

(***************************************************************************)
(* LineElement._clean_markdown_formatting: five re.sub passes.  re.sub     *)
(* replaces the leftmost non-overlapping matches, scanning left to right;  *)
(* \s+ is greedy, and since no marker is whitespace a match of \s+ that    *)
(* is followed by a marker is always the maximal run.                      *)
(***************************************************************************)
Whitespace == {" ", "\t"}
Markers == {"*", "_"}
Chars == Markers \cup Whitespace \cup {"a"}

IsWs(s, i) == i >= 1 /\ i <= Len(s) /\ s[i] \in Whitespace

\* (\*|_) matches at position i
IsItalicAt(s, i) == i >= 1 /\ i <= Len(s) /\ s[i] \in Markers

\* (\*\*|__) matches at position i
IsBoldAt(s, i) == i >= 1 /\ i + 1 <= Len(s) /\ s[i] \in Markers /\ s[i + 1] = s[i]

\* the first position at or after i that holds no whitespace
RECURSIVE SkipWs(_, _)
SkipWs(s, i) == IF IsWs(s, i) THEN SkipWs(s, i + 1) ELSE i

\* re.sub(r"(\*\*|__)\s+", r"\1", s), from position i on
RECURSIVE SubAfterBold(_, _)
SubAfterBold(s, i) ==
    IF i > Len(s) THEN <<>>
    ELSE IF IsBoldAt(s, i) /\ IsWs(s, i + 2)
         THEN <<s[i], s[i + 1]>> \o SubAfterBold(s, SkipWs(s, i + 2))
         ELSE <<s[i]>> \o SubAfterBold(s, i + 1)

\* re.sub(r"\s+(\*\*|__)", r"\1", s), from position i on
RECURSIVE SubBeforeBold(_, _)
SubBeforeBold(s, i) ==
    IF i > Len(s) THEN <<>>
    ELSE IF IsWs(s, i) /\ IsBoldAt(s, SkipWs(s, i))
         THEN LET j == SkipWs(s, i)
              IN  <<s[j], s[j + 1]>> \o SubBeforeBold(s, j + 2)
         ELSE <<s[i]>> \o SubBeforeBold(s, i + 1)

\* the third rule with \s in place of \s+: one whitespace character removed
RECURSIVE SubAfterItalicOnce(_, _)
SubAfterItalicOnce(s, i) ==
    IF i > Len(s) THEN <<>>
    ELSE IF IsItalicAt(s, i) /\ IsWs(s, i + 1)
         THEN <<s[i]>> \o SubAfterItalicOnce(s, i + 2)
         ELSE <<s[i]>> \o SubAfterItalicOnce(s, i + 1)

\* re.sub(r"(\*|_)\s+", r"\1", s), from position i on
RECURSIVE SubAfterItalic(_, _)
SubAfterItalic(s, i) ==
    IF i > Len(s) THEN <<>>
    ELSE IF IsItalicAt(s, i) /\ IsWs(s, i + 1)
         THEN <<s[i]>> \o SubAfterItalic(s, SkipWs(s, i + 1))
         ELSE <<s[i]>> \o SubAfterItalic(s, i + 1)

\* re.sub(r"\s+(\*|_)", r"\1", s), from position i on
RECURSIVE SubBeforeItalic(_, _)
SubBeforeItalic(s, i) ==
    IF i > Len(s) THEN <<>>
    ELSE IF IsWs(s, i) /\ IsItalicAt(s, SkipWs(s, i))
         THEN LET j == SkipWs(s, i)
              IN  <<s[j]>> \o SubBeforeItalic(s, j + 1)
         ELSE <<s[i]>> \o SubBeforeItalic(s, i + 1)

\* re.sub(r"(\*\*|__)(\*\*|__)", r"\1 \2", s), from position i on
RECURSIVE SubAdjacentBold(_, _)
SubAdjacentBold(s, i) ==
    IF i > Len(s) THEN <<>>
    ELSE IF IsBoldAt(s, i) /\ IsBoldAt(s, i + 2)
         THEN <<s[i], s[i + 1], " ", s[i + 2], s[i + 3]>> \o SubAdjacentBold(s, i + 4)
         ELSE <<s[i]>> \o SubAdjacentBold(s, i + 1)

CleanMarkdownFormatting(text) ==
    LET t1 == SubAfterBold(text, 1)
        t2 == SubBeforeBold(t1, 1)
        t3 == SubAfterItalic(t2, 1)
        t4 == SubBeforeItalic(t3, 1)
    IN  SubAdjacentBold(t4, 1)

(***************************************************************************)
(* TextSpan.formatted_text and LineElement.text.  An optional span is a    *)
(* sequence of at most one span: <<>> is None.                             *)
(***************************************************************************)
FormattedText(span, previous_span, next_span) ==
    LET f0 == span.text
        f1 == IF span.is_bold /\ (previous_span = <<>> \/ ~previous_span[1].is_bold)
              THEN <<"*", "*">> \o f0 ELSE f0
        f2 == IF span.is_italic /\ (previous_span = <<>> \/ ~previous_span[1].is_italic)
              THEN <<"*">> \o f1 ELSE f1
        f3 == IF span.is_bold /\ (next_span = <<>> \/ ~next_span[1].is_bold)
              THEN f2 \o <<"*", "*">> ELSE f2
    IN  IF span.is_italic /\ (next_span = <<>> \/ ~next_span[1].is_italic)
        THEN f3 \o <<"*">> ELSE f3

\* the concatenation of the formatted spans i..Len(sp)
RECURSIVE CombinedText(_, _)
CombinedText(sp, i) ==
    IF i > Len(sp) THEN <<>>
    ELSE LET previous_span == IF i > 1 THEN <<sp[i - 1]>> ELSE <<>>
             next_span == IF i < Len(sp) THEN <<sp[i + 1]>> ELSE <<>>
         IN  FormattedText(sp[i], previous_span, next_span) \o CombinedText(sp, i + 1)

LineText(sp) ==
    IF sp = <<>> THEN <<>> ELSE CleanMarkdownFormatting(CombinedText(sp, 1))

\* LineElement.combine, on the spans
LineCombineSpans(self, other) == self \o other

(***************************************************************************)
(* Bbox: the two "before" validators, then construction; combine.          *)
(***************************************************************************)
\* the first validator with < in place of <=
X1MustBeGreaterThanX0Strict(data) ==
    IF data.x1 < data.x0 THEN Raised("ValueError") ELSE Returned(data)

X1MustBeGreaterThanX0(data) ==
    IF data.x1 <= data.x0 THEN Raised("ValueError") ELSE Returned(data)

Y1MustBeGreaterThanY0(data) ==
    IF data.y1 <= data.y0 THEN Raised("ValueError") ELSE Returned(data)

\* Bbox(**data): a Bbox value, or the validation error
Bbox(data) ==
    IF X1MustBeGreaterThanX0(data).raised # "" THEN X1MustBeGreaterThanX0(data)
    ELSE Y1MustBeGreaterThanY0(data)

\* combine without the page comparison
BboxCombineAnyPage(self, other) ==
    Bbox([page |-> self.page,
          page_height |-> self.page_height,
          page_width |-> self.page_width,
          x0 |-> Min(self.x0, other.x0),
          y0 |-> Min(self.y0, other.y0),
          x1 |-> Max(self.x1, other.x1),
          y1 |-> Max(self.y1, other.y1)])

\* combine that keeps the receiver's x0 and y0
BboxCombineKeepsOrigin(self, other) ==
    IF self.page # other.page THEN Raised("ValueError")
    ELSE Bbox([page |-> self.page,
               page_height |-> self.page_height,
               page_width |-> self.page_width,
               x0 |-> self.x0,
               y0 |-> self.y0,
               x1 |-> Max(self.x1, other.x1),
               y1 |-> Max(self.y1, other.y1)])

BboxCombine(self, other) ==
    IF self.page # other.page THEN Raised("ValueError")
    ELSE Bbox([page |-> self.page,
               page_height |-> self.page_height,
               page_width |-> self.page_width,
               x0 |-> Min(self.x0, other.x0),
               y0 |-> Min(self.y0, other.y0),
               x1 |-> Max(self.x1, other.x1),
               y1 |-> Max(self.y1, other.y1)])

(***************************************************************************)
(* LineElement.overlaps, on the bbox 4-tuples (x0, y0, x1, y1).            *)
(***************************************************************************)
LineOverlaps(self, other, error_margin) ==
    LET x_overlap == ~(self[1] - error_margin > other[3] + error_margin
                       \/ other[1] - error_margin > self[3] + error_margin)
        y_overlap == ~(self[2] - error_margin > other[4] + error_margin
                       \/ other[2] - error_margin > self[4] + error_margin)
    IN  Returned(x_overlap /\ y_overlap)

(***************************************************************************)
(* TextElement and TableElement: [text, bbox, variant].  TableElement      *)
(* defines area, page, tokens and is_at_similar_height, and no overlaps:   *)
(* looking the attribute up on it raises AttributeError.                   *)
(***************************************************************************)
DefaultErrorMargin == 1
StubTokens == 50
TOKENIZATION_LOWER_LIMIT == 256
TOKENIZATION_UPPER_LIMIT == 1024
ELEMENT_DELIMETER == <<"<", "b", "r", ">", "<", "b", "r", ">">>

\* src.utils.num_tokens: a total function from text to a count
NumTokens(text) == Len(text)

IsAtSimilarHeight(self, other, error_margin) ==
    Abs(self.bbox.y1 - other.bbox.y1) <= error_margin

ElementOverlaps(self, other, x_error_margin, y_error_margin) ==
    IF self.variant = "table" THEN Raised("AttributeError")
    ELSE IF self.bbox.page # other.bbox.page THEN Returned(FALSE)
    ELSE LET x_overlap == ~(self.bbox.x0 - x_error_margin > other.bbox.x1 + x_error_margin
                            \/ other.bbox.x0 - x_error_margin > self.bbox.x1 + x_error_margin)
             y_overlap == ~(self.bbox.y0 - y_error_margin > other.bbox.y1 + y_error_margin
                            \/ other.bbox.y0 - y_error_margin > self.bbox.y1 + y_error_margin)
         IN  Returned(x_overlap /\ y_overlap)

(***************************************************************************)
(* Node: the derived properties, on the element sequence.  min() and       *)
(* max() of an empty iterable raise ValueError.                            *)
(***************************************************************************)
PageOf(e) == e.bbox.page

\* the generators (element.bbox.<field> for element in self.elements)
ElementPages(els) == [i \in 1..Len(els) |-> els[i].bbox.page]
ElementX0s(els) == [i \in 1..Len(els) |-> els[i].bbox.x0]
ElementY0s(els) == [i \in 1..Len(els) |-> els[i].bbox.y0]
ElementX1s(els) == [i \in 1..Len(els) |-> els[i].bbox.x1]
ElementY1s(els) == [i \in 1..Len(els) |-> els[i].bbox.y1]

PyMin(s) == IF s = <<>> THEN Raised("ValueError") ELSE Returned(SeqMin(s))
PyMax(s) == IF s = <<>> THEN Raised("ValueError") ELSE Returned(SeqMax(s))

RECURSIVE NodeTokensFrom(_, _)
NodeTokensFrom(els, i) ==
    IF i > Len(els) THEN 0 ELSE NumTokens(els[i].text) + NodeTokensFrom(els, i + 1)

NodeTokens(els) == Returned(NodeTokensFrom(els, 1))
NodeIsStub(els) == Returned(NodeTokens(els).value < StubTokens)
NodeIsSmall(els) == Returned(NodeTokens(els).value < TOKENIZATION_LOWER_LIMIT)
NodeIsLarge(els) == Returned(NodeTokens(els).value > TOKENIZATION_UPPER_LIMIT)

\* the keys of elements_by_page, in insertion order
RECURSIVE PagesInOrder(_, _)
PagesInOrder(els, i) ==
    IF i > Len(els) THEN <<>>
    ELSE IF \E j \in 1..(i - 1) : PageOf(els[j]) = PageOf(els[i])
         THEN PagesInOrder(els, i + 1)
         ELSE <<PageOf(els[i])>> \o PagesInOrder(els, i + 1)

\* the elements not grouped by page
ElementsOnAnyPage(els, page) == els

\* elements_by_page[page]
ElementsOnPage(els, page) == SelectSeq(els, LAMBDA e : PageOf(e) = page)

PageBbox(els, page) ==
    LET group == ElementsOnPage(els, page)
    IN  Bbox([page |-> page,
              page_height |-> group[1].bbox.page_height,
              page_width |-> group[1].bbox.page_width,
              x0 |-> SeqMin(ElementX0s(group)),
              y0 |-> SeqMin(ElementY0s(group)),
              x1 |-> SeqMax(ElementX1s(group)),
              y1 |-> SeqMax(ElementY1s(group))])

NodeBbox(els) ==
    LET pages == PagesInOrder(els, 1)
        boxes == [k \in 1..Len(pages) |-> PageBbox(els, pages[k])]
    IN  IF \E k \in 1..Len(pages) : boxes[k].raised # ""
        THEN Raised("ValueError")
        ELSE Returned([k \in 1..Len(pages) |-> boxes[k].value])

NodeNumPages(els) == Returned(Cardinality({PageOf(els[i]) : i \in 1..Len(els)}))
NodeStartPage(els) == PyMin(ElementPages(els))
NodeEndPage(els) == PyMax(ElementPages(els))

NodeAggregatePosition(els) ==
    LET min_page == PyMin(ElementPages(els))
        min_y0 == PyMin(ElementY0s(els))
        min_x0 == PyMin(ElementX0s(els))
    IN  IF min_page.raised # "" THEN min_page
        ELSE Returned(<<min_page.value, min_y0.value, min_x0.value>>)

\* the sort key (e.page, -e.bbox.y1, e.bbox.x0), compared as tuples
KeyLess(a, b) ==
    \/ PageOf(a) < PageOf(b)
    \/ PageOf(a) = PageOf(b) /\ (0 - a.bbox.y1) < (0 - b.bbox.y1)
    \/ PageOf(a) = PageOf(b) /\ a.bbox.y1 = b.bbox.y1 /\ a.bbox.x0 < b.bbox.x0

RECURSIVE InsertSorted(_, _)
InsertSorted(e, s) ==
    IF s = <<>> THEN <<e>>
    ELSE IF KeyLess(e, s[1]) THEN <<e>> \o s
    ELSE <<s[1]>> \o InsertSorted(e, Tail(s))

\* sorted(elements, key=...): stable
RECURSIVE SortedElements(_)
SortedElements(els) ==
    IF els = <<>> THEN <<>>
    ELSE InsertSorted(els[Len(els)], SortedElements(SubSeq(els, 1, Len(els) - 1)))

\* what Node.text puts before the text of sorted element i > 1
SeparatorAt(sorted, i) ==
    IF IsAtSimilarHeight(sorted[i], sorted[i - 1], DefaultErrorMargin)
    THEN <<" ">>
    ELSE <<"<", "b", "r", ">">>

RECURSIVE JoinedFrom(_, _)
JoinedFrom(sorted, i) ==
    IF i > Len(sorted) THEN <<>>
    ELSE (IF i > 1 THEN SeparatorAt(sorted, i) ELSE <<>>)
         \o sorted[i].text \o JoinedFrom(sorted, i + 1)

NodeText(els) == Returned(JoinedFrom(SortedElements(els), 1))

NodeOverlaps(self, other, x_error_margin, y_error_margin) ==
    IF NodeBbox(self).raised # "" THEN NodeBbox(self)
    ELSE IF NodeBbox(other).raised # "" THEN NodeBbox(other)
    ELSE LET mine == NodeBbox(self).value
             theirs == NodeBbox(other).value
         IN  Returned(\E i \in 1..Len(mine), j \in 1..Len(theirs) :
                 /\ theirs[j].page = mine[i].page
                 /\ ~(mine[i].x0 - x_error_margin > theirs[j].x1 + x_error_margin
                      \/ theirs[j].x0 - x_error_margin > mine[i].x1 + x_error_margin)
                 /\ ~(mine[i].y0 - y_error_margin > theirs[j].y1 + y_error_margin
                      \/ theirs[j].y0 - y_error_margin > mine[i].y1 + y_error_margin))

\* Node(elements=self.elements + other.elements)
NodeCombine(self, other) == self \o other

(***************************************************************************)
(* The inputs the operations are applied to.                               *)
(***************************************************************************)
SeqsUpTo(S, n) == UNION {[1..k -> S] : k \in 0..n}

RawStrings == SeqsUpTo(Chars, MaxLen)

SpanPool == [text : {<<"a">>, <<" ">>}, is_bold : BOOLEAN, is_italic : BOOLEAN]

Pages == 1..MaxPage
Coords == 0..MaxCoord
PageDims == {10, 20}
Margins == (0 - MaxMargin)..MaxMargin

\* keyword arguments given to Bbox(...), valid or not
RawBboxData ==
    [page : Pages, page_height : PageDims, page_width : PageDims,
     x0 : Coords, y0 : Coords, x1 : Coords, y1 : Coords]

\* the Bbox values that construction yields
ValidBboxes == {Bbox(d).value : d \in {r \in RawBboxData : Bbox(r).raised = ""}}

\* LineElement.bbox is an unvalidated 4-tuple
LineBoxes == [1..4 -> 0..MaxLineCoord]

\* rectangles, page sizes, texts and variants of the content elements
Layouts ==
    { [x0 |-> 0, y0 |-> 0, x1 |-> 1, y1 |-> 2, page_height |-> 10, page_width |-> 10,
       text |-> <<"A">>, variant |-> "text"],
      [x0 |-> 1, y0 |-> 1, x1 |-> 3, y1 |-> 3, page_height |-> 10, page_width |-> 10,
       text |-> <<"B">>, variant |-> "text"],
      [x0 |-> 0, y0 |-> 3, x1 |-> 2, y1 |-> 5, page_height |-> 20, page_width |-> 10,
       text |-> <<"C">>, variant |-> "table"],
      [x0 |-> 1, y0 |-> 0, x1 |-> 2, y1 |-> 2, page_height |-> 10, page_width |-> 20,
       text |-> <<"D">>, variant |-> "text"],
      [x0 |-> 0, y0 |-> 4, x1 |-> 4, y1 |-> 5, page_height |-> 10, page_width |-> 10,
       text |-> <<"E">>, variant |-> "text"] }

\* TextElement(text=, bbox=Bbox(...)) or TableElement(text=, bbox=Bbox(...))
Element(page, l) ==
    [text |-> l.text,
     variant |-> l.variant,
     bbox |-> Bbox([page |-> page, page_height |-> l.page_height,
                    page_width |-> l.page_width,
                    x0 |-> l.x0, y0 |-> l.y0, x1 |-> l.x1, y1 |-> l.y1]).value]

ElementPool == {Element(p, l) : p \in Pages, l \in Layouts}

\* the nodes another node is combined with: Node(elements=()) and one-element nodes
PoolNodes == SeqsUpTo(ElementPool, 1)

\* the nodes the geometric predicates are called on
GeomNodes == SeqsUpTo(ElementPool, 2)

(***************************************************************************)
(* SpecClean: the cleanup pass applied to a raw string, then to its own    *)
(* output.                                                                 *)
(***************************************************************************)
InitClean ==
    /\ raw \in RawStrings
    /\ call = NoCall
    /\ elements = <<>>
    /\ spans = <<>>
    /\ args = [op |-> "none"]

Clean ==
    /\ call' = [op |-> "clean", text |-> raw, result |-> CleanMarkdownFormatting(raw)]
    /\ UNCHANGED <<elements, spans, raw, args>>

CleanAgain ==
    /\ call.op \in {"clean", "clean_again"}
    /\ call' = [op |-> "clean_again", text |-> call.result,
                result |-> CleanMarkdownFormatting(call.result)]
    /\ UNCHANGED <<elements, spans, raw, args>>

NextClean == Clean \/ CleanAgain

SpecClean == InitClean /\ [][NextClean]_vars

(***************************************************************************)
(* SpecLine: a line grown span by span with LineElement.combine, and its   *)
(* text read.                                                              *)
(***************************************************************************)
InitLine ==
    /\ spans = <<>>
    /\ call = NoCall
    /\ elements = <<>>
    /\ raw = <<>>
    /\ args = [op |-> "none"]

LineCombine ==
    /\ Len(spans) < MaxSpans
    /\ \E span \in SpanPool : spans' = LineCombineSpans(spans, <<span>>)
    /\ call' = [op |-> "LineElement.combine"]
    /\ UNCHANGED <<elements, raw, args>>

ReadLineText ==
    /\ call' = [op |-> "LineElement.text", result |-> LineText(spans)]
    /\ UNCHANGED <<elements, spans, raw, args>>

NextLine == LineCombine \/ ReadLineText

SpecLine == InitLine /\ [][NextLine]_vars

(***************************************************************************)
(* SpecGeom: Bbox construction and combination, and the overlap            *)
(* predicates of lines, content elements and nodes, applied to drawn       *)
(* arguments.                                                              *)
(***************************************************************************)
BboxArgs == [op : {"Bbox"}, data : RawBboxData]

BboxCombineArgs == [op : {"Bbox.combine"}, self : ValidBboxes, other : ValidBboxes]

LineOverlapsArgs ==
    [op : {"LineElement.overlaps"}, self : LineBoxes, other : LineBoxes,
     error_margin : Margins]

ElementOverlapsArgs ==
    [op : {"Element.overlaps"}, self : ElementPool, other : ElementPool,
     x_error_margin : Margins, y_error_margin : Margins]

NodeOverlapsArgs ==
    [op : {"Node.overlaps"}, self : GeomNodes, other : PoolNodes,
     x_error_margin : Margins, y_error_margin : Margins]

NodeBboxArgs == [op : {"Node.bbox"}, self : GeomNodes]

InitGeom ==
    /\ args \in BboxArgs \cup BboxCombineArgs \cup LineOverlapsArgs
                \cup ElementOverlapsArgs \cup NodeOverlapsArgs \cup NodeBboxArgs
    /\ call = NoCall
    /\ elements = <<>>
    /\ spans = <<>>
    /\ raw = <<>>

Called(result) ==
    /\ call' = [op |-> args.op, result |-> result]
    /\ UNCHANGED <<elements, spans, raw, args>>

NewBbox ==
    /\ args.op = "Bbox"
    /\ Called(Bbox(args.data))

CombineBbox ==
    /\ args.op = "Bbox.combine"
    /\ Called(BboxCombine(args.self, args.other))

CallLineOverlaps ==
    /\ args.op = "LineElement.overlaps"
    /\ Called(LineOverlaps(args.self, args.other, args.error_margin))

CallElementOverlaps ==
    /\ args.op = "Element.overlaps"
    /\ Called(ElementOverlaps(args.self, args.other,
                              args.x_error_margin, args.y_error_margin))

CallNodeOverlaps ==
    /\ args.op = "Node.overlaps"
    /\ Called(NodeOverlaps(args.self, args.other,
                           args.x_error_margin, args.y_error_margin))

CallNodeBbox ==
    /\ args.op = "Node.bbox"
    /\ Called(NodeBbox(args.self))

NextGeom ==
    \/ NewBbox
    \/ CombineBbox
    \/ CallLineOverlaps
    \/ CallElementOverlaps
    \/ CallNodeOverlaps
    \/ CallNodeBbox

SpecGeom == InitGeom /\ [][NextGeom]_vars

(***************************************************************************)
(* Spec: a node, constructed empty, grown with Node.combine, and its       *)
(* derived properties read.                                                *)
(***************************************************************************)
Init ==
    /\ elements = <<>>
    /\ call = NoCall
    /\ spans = <<>>
    /\ raw = <<>>
    /\ args = [op |-> "none"]

Combine ==
    /\ \E other \in PoolNodes :
          /\ Len(elements) + Len(other) <= MaxElems
          /\ elements' = NodeCombine(elements, other)
    /\ call' = [op |-> "Node.combine"]
    /\ UNCHANGED <<spans, raw, args>>

Read(op, result) ==
    /\ call' = [op |-> op, result |-> result]
    /\ UNCHANGED <<elements, spans, raw, args>>

ReadTokens == Read("Node.tokens", NodeTokens(elements))
ReadIsStub == Read("Node.is_stub", NodeIsStub(elements))
ReadIsSmall == Read("Node.is_small", NodeIsSmall(elements))
ReadIsLarge == Read("Node.is_large", NodeIsLarge(elements))
ReadBbox == Read("Node.bbox", NodeBbox(elements))
ReadNumPages == Read("Node.num_pages", NodeNumPages(elements))
ReadStartPage == Read("Node.start_page", NodeStartPage(elements))
ReadEndPage == Read("Node.end_page", NodeEndPage(elements))
ReadAggregatePosition == Read("Node.aggregate_position", NodeAggregatePosition(elements))
ReadText == Read("Node.text", NodeText(elements))

Next ==
    \/ Combine
    \/ ReadTokens
    \/ ReadIsStub
    \/ ReadIsSmall
    \/ ReadIsLarge
    \/ ReadBbox
    \/ ReadNumPages
    \/ ReadStartPage
    \/ ReadEndPage
    \/ ReadAggregatePosition
    \/ ReadText

Spec == Init /\ [][Next]_vars

(***************************************************************************)
(* The claims.                                                             *)
(***************************************************************************)
SetMin(S) == CHOOSE m \in S : \A x \in S : m <= x
SetMax(S) == CHOOSE m \in S : \A x \in S : m >= x

SameOutcome(r1, r2) ==
    /\ r1.raised = r2.raised
    /\ r1.raised = "" => r1.value = r2.value

\* the join the documentation describes: a space between height-similar
\* neighbours, consts.ELEMENT_DELIMETER between the others
RECURSIVE DelimitedFrom(_, _)
DelimitedFrom(sorted, i) ==
    IF i > Len(sorted) THEN <<>>
    ELSE (IF i = 1 THEN <<>>
          ELSE IF Abs(sorted[i].bbox.y1 - sorted[i - 1].bbox.y1) <= 1 THEN <<" ">>
          ELSE ELEMENT_DELIMETER)
         \o sorted[i].text \o DelimitedFrom(sorted, i + 1)

\* C1: Node.text is the texts of the elements sorted by (page, -y1, x0),
\* joined by a single space where the later element is at similar height to
\* the previous one and by consts.ELEMENT_DELIMETER ("<br><br>") elsewhere,
\* with nothing before the first.
C1_TextJoinsWithElementDelimiter ==
    call.op = "Node.text" =>
        /\ call.result.raised = ""
        /\ call.result.value = DelimitedFrom(SortedElements(elements), 1)

\* C2: between two consecutive sorted elements that lie on different pages
\* Node.text never emits the single space.
C2_PageBreakIsNeverASpace ==
    call.op = "Node.text" =>
        LET sorted == SortedElements(elements)
        IN  \A i \in 2..Len(sorted) :
                sorted[i].bbox.page # sorted[i - 1].bbox.page
                    => SeparatorAt(sorted, i) # <<" ">>

\* C3: the cleanup pass is idempotent: applied to its own output it returns
\* that output unchanged.
C3_CleanupIdempotent ==
    call.op = "clean_again" => call.result = call.text

\* a raw string in which the fifth rule inserts a space, cleaned twice
C3_Witness ==
    /\ call.op = "clean_again"
    /\ call.text # raw
    /\ \E i \in 1..Len(raw) : IsBoldAt(raw, i) /\ IsBoldAt(raw, i + 2)
    /\ \E i \in 1..Len(call.text) : call.text[i] = " "
    /\ call.result = call.text

\* C4: LineElement.text never holds two adjacent identical bold markers
\* ("****" or "____") with nothing between them.
C4_NoAdjacentIdenticalMarkers ==
    call.op = "LineElement.text" =>
        ~\E i \in 1..Len(call.result) :
            /\ IsBoldAt(call.result, i)
            /\ IsBoldAt(call.result, i + 2)
            /\ call.result[i] = call.result[i + 2]

NodeProperties ==
    {"Node.tokens", "Node.is_stub", "Node.is_small", "Node.is_large", "Node.bbox",
     "Node.num_pages", "Node.start_page", "Node.end_page", "Node.aggregate_position",
     "Node.text"}

\* C5: reading a derived property of a constructed node never raises.
C5_PropertiesNeverFail ==
    call.op \in NodeProperties => call.result.raised = ""

Encloses(r, a, b) ==
    /\ r.x0 = (IF a.x0 <= b.x0 THEN a.x0 ELSE b.x0)
    /\ r.y0 = (IF a.y0 <= b.y0 THEN a.y0 ELSE b.y0)
    /\ r.x1 = (IF a.x1 >= b.x1 THEN a.x1 ELSE b.x1)
    /\ r.y1 = (IF a.y1 >= b.y1 THEN a.y1 ELSE b.y1)

\* C6, as stated: for boxes of one page a.combine(b) and b.combine(a) are
\* equal Bbox values, the minimal enclosing rectangle.
C6_CombineCommutative ==
    call.op = "Bbox.combine" /\ args.self.page = args.other.page =>
        /\ call.result.raised = ""
        /\ Encloses(call.result.value, args.self, args.other)
        /\ SameOutcome(call.result, BboxCombine(args.other, args.self))

\* C6, amended: for boxes of one page a.combine(b) is the minimal enclosing
\* rectangle on that page and carries a's page_height and page_width;
\* b.combine(a) has the same page and rectangle and carries b's, so the two
\* are equal Bbox values when a and b have the same page dimensions.
C6_CombineCommutativeRectangle ==
    call.op = "Bbox.combine" /\ args.self.page = args.other.page =>
        LET swapped == BboxCombine(args.other, args.self)
        IN  /\ call.result.raised = ""
            /\ swapped.raised = ""
            /\ Encloses(call.result.value, args.self, args.other)
            /\ call.result.value.page = args.self.page
            /\ call.result.value.page_height = args.self.page_height
            /\ call.result.value.page_width = args.self.page_width
            /\ swapped.value.page = call.result.value.page
            /\ swapped.value.x0 = call.result.value.x0
            /\ swapped.value.y0 = call.result.value.y0
            /\ swapped.value.x1 = call.result.value.x1
            /\ swapped.value.y1 = call.result.value.y1
            /\ swapped.value.page_height = args.other.page_height
            /\ swapped.value.page_width = args.other.page_width
            /\ (args.self.page_height = args.other.page_height
                /\ args.self.page_width = args.other.page_width)
                   => swapped.value = call.result.value

\* two boxes of one page with different page sizes, neither inside the other
C6_Witness ==
    /\ call.op = "Bbox.combine"
    /\ args.self.page = args.other.page
    /\ args.self.page_height # args.other.page_height
    /\ call.result.raised = ""
    /\ call.result.value.x0 < args.self.x0
    /\ call.result.value.y1 > args.other.y1

\* C7: every overlap predicate gives the same answer with receiver and
\* argument exchanged, for lines, content elements and nodes and all margins.
C7_OverlapsSymmetric ==
    /\ call.op = "LineElement.overlaps" =>
           SameOutcome(call.result,
                       LineOverlaps(args.other, args.self, args.error_margin))
    /\ call.op = "Element.overlaps" =>
           SameOutcome(call.result,
                       ElementOverlaps(args.other, args.self,
                                       args.x_error_margin, args.y_error_margin))
    /\ call.op = "Node.overlaps" =>
           SameOutcome(call.result,
                       NodeOverlaps(args.other, args.self,
                                    args.x_error_margin, args.y_error_margin))

\* C8: Node.bbox returns exactly one Bbox per distinct page of the node's
\* elements; the box of page p spans the minimum x0, y0 and the maximum x1, y1
\* of the elements on p and carries the page_height and page_width of the
\* first element on p in element order.
C8_OneBboxPerPage ==
    call.op = "Node.bbox" =>
        LET idx == 1..Len(elements)
            pages == {elements[i].bbox.page : i \in idx}
            OnPage(p) == {i \in idx : elements[i].bbox.page = p}
            boxes == call.result.value
        IN  /\ call.result.raised = ""
            /\ Len(boxes) = Cardinality(pages)
            /\ \A p \in pages :
                  \E k \in 1..Len(boxes) :
                      /\ boxes[k].page = p
                      /\ boxes[k].x0 = SetMin({elements[i].bbox.x0 : i \in OnPage(p)})
                      /\ boxes[k].y0 = SetMin({elements[i].bbox.y0 : i \in OnPage(p)})
                      /\ boxes[k].x1 = SetMax({elements[i].bbox.x1 : i \in OnPage(p)})
                      /\ boxes[k].y1 = SetMax({elements[i].bbox.y1 : i \in OnPage(p)})
                      /\ boxes[k].page_height
                             = elements[SetMin(OnPage(p))].bbox.page_height
                      /\ boxes[k].page_width
                             = elements[SetMin(OnPage(p))].bbox.page_width

\* a combined node whose elements lie on pages 1, 2, 1, the two on page 1 with
\* different page heights and rectangles: two boxes
C8_Witness ==
    /\ call.op = "Node.bbox"
    /\ Len(elements) = 3
    /\ elements[1].bbox.page = 1
    /\ elements[2].bbox.page = 2
    /\ elements[3].bbox.page = 1
    /\ elements[1].bbox.page_height # elements[3].bbox.page_height
    /\ elements[3].bbox.x1 > elements[1].bbox.x1
    /\ call.result.raised = ""
    /\ Len(call.result.value) = 2

Proper(b) == b.x1 > b.x0 /\ b.y1 > b.y0

C10_CombineAcrossPagesFails ==
    call.op = "Bbox.combine" /\ args.self.page # args.other.page =>
        /\ call.result.raised = "ValueError"
        /\ call.result.value = NoValue

\* two valid boxes of different pages, combined
C10_Witness ==
    /\ call.op = "Bbox.combine"
    /\ args.self.page # args.other.page
    /\ args.self \in ValidBboxes
    /\ args.other \in ValidBboxes
    /\ call.result.raised = "ValueError"

=============================================================================
